---- MODULE Spec2Model ----
(***************************************************************************)
(* Model of the comment notification hub and the createComment/createPost  *)
(* mutations of ButyrinIA/system.                                          *)
(*                                                                         *)
(*   internal/graphql/resolver.go   mutationResolver.CreatePost,           *)
(*                                  mutationResolver.CreateComment,        *)
(*                                  subscriptionHandler.CommentAdded       *)
(*   internal/storage/memory        MemoryStorage (posts, comments)        *)
(*                                                                         *)
(* A string is modelled by its length (the code only looks at len()), a    *)
(* uuid by a fresh number, a channel by an index into the channel tables.  *)
(* Every subscription (one CommentAdded call) owns one channel, so the     *)
(* channel index also names the call and its watcher goroutine.            *)
(*                                                                         *)
(* Two specifications share the definitions that model the code:           *)
(*   Spec     every handler is one step; requests are served one at a time *)
(*            from the freshly constructed server.                         *)
(*   SpecHub  the handlers are cut at the lock and channel operations and  *)
(*            run concurrently; it starts with the posts already created.  *)
(***************************************************************************)
EXTENDS Integers, Sequences, FiniteSets, TLC

\* ---------------------------------------------------------------- bounds
NumPosts    == 1      \* post ids that requests may name
NumChans    == 2      \* CommentAdded calls over the run
NumCallers  == 2      \* concurrent CreateComment requests
MaxComments == 2      \* comment ids handed out over the run

\* ------------------------------------------------------ program constants
MaxTitleLen   == 200
MaxContentLen == 2000
ChanCap       == 1

PostIds  == 1..NumPosts
Chans    == 1..NumChans
Callers  == 1..NumCallers
Titles   == {MaxTitleLen, MaxTitleLen + 1}
Contents == {MaxContentLen, MaxContentLen + 1}

NoPost == [ID |-> 0]

\* a request context: whether it carries a "userID" string, and that string
Anonymous    == [ok |-> FALSE, userID |-> ""]
Ctxs         == {Anonymous, [ok |-> TRUE, userID |-> "user2"]}
HubCtxs      == {Anonymous}
FallbackUser == "user1"
Free   == <<"free", 0>>

ErrContent  == "comment content exceeds 2000 characters"
ErrTitle    == "title exceeds 200 characters"
ErrPostContent == "content exceeds 2000 characters"
ErrNotFound == "post not found"
ErrDisabled == "comments are disabled for this post"
ErrGetPost  == "failed to get post: post not found"
ErrCreate   == "failed to create comment: post not found"

VARIABLES
  posts,            \* MemoryStorage.posts: post id -> post, NoPost when absent
  comments,         \* MemoryStorage.comments: post id -> stored comments
  commentChannels,  \* subscriptionHandler.commentChannels: map, DOMAIN = its keys
  mu,               \* subscriptionHandler.mu: Free, or the holder
  chState,          \* channel: "nil" (not made), "open", "closed"
  chBuf,            \* channel buffer (capacity 1)
  chPost,           \* postID argument of the CommentAdded call owning the channel
  ctxDone,          \* the call's context has been cancelled
  spc,              \* position of the CommentAdded call and of its watcher
  pc,               \* position of each CreateComment request
  req,              \* locals of each CreateComment request
  ret,              \* what the step just taken returned to its caller, NoRet if nothing
  nextID,           \* source of fresh comment ids (uuid.New)
  persisted,        \* history: comment ids Storage.CreateComment accepted
  published,        \* history: comment ids in the order publishes took the lock
  lastRecv,         \* history: id of the comment each subscriber lastRecv last, 0 if none
  closes,           \* history: number of close(ch) executed per channel
  panic,            \* runtime fault raised by a channel operation, "" if none
  walk              \* history: the pages a client got by following NextCursor

vars == <<posts, comments, commentChannels, mu, chState, chBuf, chPost, ctxDone,
          spc, pc, req, ret, nextID, persisted, published,
          lastRecv, closes, panic, walk>>

storeVars == <<posts, comments>>
chanVars  == <<chState, chBuf, chPost, ctxDone, spc>>
callVars  == <<pc, req>>
histVars  == <<persisted, published, lastRecv, closes>>
pageVars  == <<walk>>

\* a handler's return: the call (its name and, for the store's calls, its
\* arguments), the returned entity or page, and the error, "" for nil
Nil == [ID |-> 0]
Ret(who, v, e) == [by |-> who, err |-> e, val |-> v]
NoRet == Ret(<<"", 0>>, Nil, "")

NoComment == [ID |-> 0, PostID |-> 0, AuthorID |-> "", Content |-> 0]
\* no walk in progress; otherwise the limit, the cursor to follow next, the ids
\* collected so far and whether a page with a nil NextCursor was reached
NoWalk == [on |-> FALSE, limit |-> 0, cursor |-> <<"nil", 0>>, items |-> <<>>,
           done |-> FALSE]

NoReq == [postID |-> 0, comment |-> NoComment, exists |-> FALSE,
          channels |-> <<>>, i |-> 0, newChannels |-> <<>>]

Init ==
  /\ posts = [p \in PostIds |-> NoPost]
  /\ comments = [p \in PostIds |-> <<>>]
  /\ commentChannels = <<>>
  /\ mu = Free
  /\ chState = [c \in Chans |-> "nil"]
  /\ chBuf = [c \in Chans |-> <<>>]
  /\ chPost = [c \in Chans |-> 0]
  /\ ctxDone = [c \in Chans |-> FALSE]
  /\ spc = [c \in Chans |-> "none"]
  /\ pc = [t \in Callers |-> "idle"]
  /\ req = [t \in Callers |-> NoReq]
  /\ ret = NoRet
  /\ nextID = 1
  /\ persisted = {}
  /\ published = <<>>
  /\ lastRecv = [c \in Chans |-> 0]
  /\ closes = [c \in Chans |-> 0]
  /\ panic = ""
  /\ walk = NoWalk

\* ------------------------------------------------------------- Go maps
\* m[k] of a Go map whose values are slices: the nil slice when k is absent
MapGet(m, k) == IF k \in DOMAIN m THEN m[k] ELSE <<>>
\* m[k] = v
MapSet(m, k, v) == [x \in (DOMAIN m) \cup {k} |-> IF x = k THEN v ELSE m[x]]
\* delete(m, k)
MapDelete(m, k) == [x \in (DOMAIN m) \ {k} |-> m[x]]

\* StoreCreatePost that stores the post with comments switched off
StoreCreatePost_DropFlag(post) ==
  [posts EXCEPT ![post.ID] = [post EXCEPT !.AllowComments = FALSE]]

\* ------------------------------------------------------- MemoryStorage
\* MemoryStorage.CreatePost: the posts map afterwards (the error is always nil)
StoreCreatePost(post) == [posts EXCEPT ![post.ID] = post]

\* MemoryStorage.GetPost: the post and the error ("" for nil)
GetPost(id) ==
  IF posts[id] = NoPost THEN [post |-> NoPost, err |-> ErrNotFound]
                        ELSE [post |-> posts[id], err |-> ""]

\* StoreCreateComment without the lookup of the post
StoreCreateComment_NoCheck(comment) ==
  [err |-> "",
   comments |-> [comments EXCEPT ![comment.PostID] = Append(@, comment)]]

\* MemoryStorage.CreateComment: the error and the comments map afterwards
StoreCreateComment(comment) ==
  IF posts[comment.PostID] = NoPost
    THEN [err |-> ErrNotFound, comments |-> comments]
    ELSE [err |-> "",
          comments |-> [comments EXCEPT ![comment.PostID] = Append(@, comment)]]

\* TrySend as a plain "ch <- comment": the send waits while the buffer is full
TrySend_Blocking(states, bufs, ch, comment) ==
  IF states[ch] = "closed"
    THEN [panic |-> "send on closed channel", blocks |-> FALSE, sent |-> FALSE,
          bufs |-> bufs]
    ELSE IF Len(bufs[ch]) < ChanCap
      THEN [panic |-> "", blocks |-> FALSE, sent |-> TRUE,
            bufs |-> [bufs EXCEPT ![ch] = Append(@, comment)]]
      ELSE [panic |-> "", blocks |-> TRUE, sent |-> FALSE, bufs |-> bufs]

\* TrySend whose default case overwrites the buffered comment of a full channel
TrySend_Overwrite(states, bufs, ch, comment) ==
  IF states[ch] = "closed"
    THEN [panic |-> "send on closed channel", blocks |-> FALSE, sent |-> FALSE,
          bufs |-> bufs]
    ELSE [panic |-> "", blocks |-> FALSE, sent |-> Len(bufs[ch]) < ChanCap,
          bufs |-> [bufs EXCEPT ![ch] = <<comment>>]]

\* ------------------------------------------------- channels and registry
\* resolver.go 313-319: "select { case ch <- comment: ... default: ... }" on a
\* channel of capacity 1; a send on a closed channel panics; with the default
\* case the select never blocks
TrySend(states, bufs, ch, comment) ==
  IF states[ch] = "closed"
    THEN [panic |-> "send on closed channel", blocks |-> FALSE, sent |-> FALSE,
          bufs |-> bufs]
    ELSE IF Len(bufs[ch]) < ChanCap
      THEN [panic |-> "", blocks |-> FALSE, sent |-> TRUE,
            bufs |-> [bufs EXCEPT ![ch] = Append(@, comment)]]
      ELSE [panic |-> "", blocks |-> FALSE, sent |-> FALSE, bufs |-> bufs]

\* resolver.go 311-320: the loop over the post's channels; newChannels
\* collects the channels the comment was sent to
RECURSIVE Publish(_, _, _, _, _)
Publish(channels, states, bufs, comment, newChannels) ==
  IF channels = <<>>
    THEN [panic |-> "", blocks |-> FALSE, bufs |-> bufs,
          newChannels |-> newChannels]
    ELSE LET r == TrySend(states, bufs, Head(channels), comment) IN
         IF r.panic # "" \/ r.blocks
           THEN [panic |-> r.panic, blocks |-> r.blocks, bufs |-> bufs,
                 newChannels |-> newChannels]
           ELSE Publish(Tail(channels), states, r.bufs, comment,
                        IF r.sent THEN Append(newChannels, Head(channels))
                                  ELSE newChannels)

\* Republish without the delete of an emptied entry
Republish_NoDelete(m, postID, newChannels) == MapSet(m, postID, newChannels)

\* resolver.go 321-325: the registry after the loop
Republish(m, postID, newChannels) ==
  IF Len(newChannels) = 0 THEN MapDelete(m, postID)
                          ELSE MapSet(m, postID, newChannels)

\* RemoveChan that keeps only channels[:i] and forgets channels[i+1:]
RemoveChan_Truncate(channels, ch) ==
  IF \E i \in 1..Len(channels) : channels[i] = ch
    THEN LET i == CHOOSE k \in 1..Len(channels) :
                    /\ channels[k] = ch
                    /\ \A j \in 1..(k - 1) : channels[j] # ch
         IN SubSeq(channels, 1, i - 1)
    ELSE channels

\* resolver.go 346-353: the list without the first occurrence of ch
RemoveChan(channels, ch) ==
  IF \E i \in 1..Len(channels) : channels[i] = ch
    THEN LET i == CHOOSE k \in 1..Len(channels) :
                    /\ channels[k] = ch
                    /\ \A j \in 1..(k - 1) : channels[j] # ch
         IN SubSeq(channels, 1, i - 1) \o SubSeq(channels, i + 1, Len(channels))
    ELSE channels

\* Deregister with the removal loop left out: the watcher closes a channel
\* that is still registered
Deregister_NoRemove(m, postID, ch) == m

\* Deregister that drops the post's whole entry when the channel is not listed
Deregister_DeleteWhenMissing(m, postID, ch) ==
  IF RemoveChan(MapGet(m, postID), ch) = MapGet(m, postID)
    THEN MapDelete(m, postID)
    ELSE MapSet(m, postID, RemoveChan(MapGet(m, postID), ch))

\* resolver.go 345-358: the registry after the watcher's critical section
Deregister(m, postID, ch) ==
  LET channels == MapGet(m, postID)
      removed  == RemoveChan(channels, ch)
      m1       == IF removed # channels THEN MapSet(m, postID, removed) ELSE m
  IN IF Len(MapGet(m1, postID)) = 0 THEN MapDelete(m1, postID) ELSE m1

\* resolver.go 360: close(ch); closing a closed channel panics
CloseChan(states, ch) ==
  IF states[ch] = "closed"
    THEN [panic |-> "close of closed channel", states |-> states]
    ELSE [panic |-> "", states |-> [states EXCEPT ![ch] = "closed"]]

\* a receive "v, ok := <-ch" on the channel: a buffered comment first, then,
\* on a closed channel, the zero value with ok = false; it blocks otherwise
Recv(c) ==
  IF Len(chBuf[c]) > 0 THEN [blocks |-> FALSE, ok |-> TRUE, val |-> Head(chBuf[c])]
  ELSE IF chState[c] = "closed"
    THEN [blocks |-> FALSE, ok |-> FALSE, val |-> NoComment]
    ELSE [blocks |-> TRUE, ok |-> FALSE, val |-> NoComment]

\* CheckPost that also refuses a title of exactly 200 and content of exactly 2000
CheckPost_OffByOne(title, content) ==
  IF title >= MaxTitleLen THEN ErrTitle
  ELSE IF content >= MaxContentLen THEN ErrPostContent
  ELSE ""

\* ---------------------------------------------- mutationResolver.CreatePost
\* resolver.go 224-231: the length checks; "" when they pass
CheckPost(title, content) ==
  IF title > MaxTitleLen THEN ErrTitle
  ELSE IF content > MaxContentLen THEN ErrPostContent
  ELSE ""

\* CheckComment that reads the post before it looks at the content length
CheckComment_PostFirst(postID, content) ==
  IF GetPost(postID).err # "" THEN "failed to get post: " \o GetPost(postID).err
  ELSE IF ~GetPost(postID).post.AllowComments THEN ErrDisabled
  ELSE IF content > MaxContentLen THEN ErrContent
  ELSE ""

\* CheckComment without the AllowComments test
CheckComment_NoAllow(postID, content) ==
  IF content > MaxContentLen THEN ErrContent
  ELSE IF GetPost(postID).err # "" THEN "failed to get post: " \o GetPost(postID).err
  ELSE ""

\* ------------------------------------------- mutationResolver.CreateComment
\* resolver.go 265-282: the checks before a comment is built; "" when they pass
CheckComment(postID, content) ==
  IF content > MaxContentLen THEN ErrContent
  ELSE IF GetPost(postID).err # "" THEN "failed to get post: " \o GetPost(postID).err
  ELSE IF ~GetPost(postID).post.AllowComments THEN ErrDisabled
  ELSE ""

\* UserID without the fallback: the zero string when the context has no identity
UserID_NoFallback(ctx) == ctx.userID

\* resolver.go 232-236 and 269-273: the identity in the context, "user1"
\* when there is none
UserID(ctx) == IF ctx.ok THEN ctx.userID ELSE FallbackUser

\* resolver.go 283-298: the comment, under a fresh uuid
NewComment(id, postID, authorID, content) ==
  [ID |-> id, PostID |-> postID, AuthorID |-> authorID, Content |-> content]

\* ============================================================ whole handlers
\* MemoryStorage.Close
Close ==
  /\ posts' = [p \in DOMAIN posts |-> NoPost]
  /\ comments' = [p \in DOMAIN comments |-> <<>>]
  /\ ret' = NoRet
  /\ walk' = NoWalk
  /\ UNCHANGED <<commentChannels, mu, chanVars, callVars, nextID, histVars, panic>>

\* mutationResolver.CreatePost: validation, then Storage.CreatePost under a
\* fresh uuid
CreatePost(ctx, title, content, allowComments) ==
  /\ IF CheckPost(title, content) # ""
       THEN /\ ret' = Ret(<<"CreatePost", 0>>, Nil, CheckPost(title, content))
            /\ posts' = posts
       ELSE \E id \in PostIds :
              /\ posts[id] = NoPost
              /\ \A other \in PostIds : posts[other] = NoPost => id <= other
              /\ posts' = StoreCreatePost(
                             [ID |-> id, Title |-> title, Content |-> content,
                              AuthorID |-> UserID(ctx),
                              AllowComments |-> allowComments])
              /\ ret' = Ret(<<"CreatePost", 0>>, posts'[id], "")
  /\ UNCHANGED <<pageVars, comments, commentChannels, mu, chanVars, pc, req, nextID,
                 histVars, panic>>

\* mutationResolver.CreateComment, resolver.go 263-331, start to return
CreateComment(ctx, postID, content) ==
  LET chk     == CheckComment(postID, content)
      comment == NewComment(nextID, postID, UserID(ctx), content)
      r       == StoreCreateComment(comment)
      exists  == postID \in DOMAIN commentChannels
      p       == Publish(MapGet(commentChannels, postID), chState, chBuf,
                         comment, <<>>)
  IN
  /\ mu = Free
  /\ IF chk # ""
       THEN /\ ret' = Ret(<<"CreateComment", 0>>, Nil, chk)
            /\ UNCHANGED <<comments, commentChannels, chBuf, nextID, persisted,
                           published, panic>>
       ELSE /\ nextID <= MaxComments
            /\ nextID' = nextID + 1
            /\ IF r.err # ""
                 THEN /\ ret' = Ret(<<"CreateComment", 0>>, Nil,
                                    "failed to create comment: " \o r.err)
                      /\ UNCHANGED <<comments, commentChannels, chBuf, persisted,
                                     published, panic>>
                 ELSE /\ exists => ~p.blocks
                      /\ comments' = r.comments
                      /\ persisted' = persisted \cup {comment.ID}
                      /\ published' = Append(published, comment.ID)
                      /\ chBuf' = IF exists THEN p.bufs ELSE chBuf
                      /\ panic' = IF exists /\ p.panic # "" THEN p.panic ELSE panic
                      /\ commentChannels' =
                           IF exists /\ p.panic = ""
                             THEN Republish(commentChannels, postID, p.newChannels)
                             ELSE commentChannels
                      /\ ret' = Ret(<<"CreateComment", 0>>, comment, "")
  /\ UNCHANGED <<pageVars, posts, mu, chState, chPost, ctxDone, spc, pc, req, lastRecv, closes>>

\* subscriptionHandler.CommentAdded, resolver.go 334-342 and 362: make the
\* channel, register it under the lock, start the watcher, return (ch, nil)
CommentAdded(c, postID) ==
  /\ spc[c] = "none"
  /\ \A d \in Chans : spc[d] = "none" => c <= d
  /\ mu = Free
  /\ chState' = [chState EXCEPT ![c] = "open"]
  /\ chPost' = [chPost EXCEPT ![c] = postID]
  /\ commentChannels' = MapSet(commentChannels, postID,
                               Append(MapGet(commentChannels, postID), c))
  /\ spc' = [spc EXCEPT ![c] = "wait"]
  /\ ret' = Ret(<<"CommentAdded", 0>>, [ID |-> c], "")
  /\ UNCHANGED <<pageVars, storeVars, mu, chBuf, ctxDone, callVars, nextID, histVars, panic>>

\* the context handed to CommentAdded is cancelled by its owner
Cancel(c) ==
  /\ spc[c] \in {"register", "wait"}
  /\ ~ctxDone[c]
  /\ ctxDone' = [ctxDone EXCEPT ![c] = TRUE]
  /\ ret' = NoRet
  /\ UNCHANGED <<pageVars, storeVars, commentChannels, mu, chState, chBuf, chPost, spc,
                 callVars, nextID, histVars, panic>>

\* the watcher goroutine, resolver.go 342-361, from ctx.Done() to close(ch)
Watcher(c) ==
  /\ spc[c] = "wait"
  /\ ctxDone[c]
  /\ mu = Free
  /\ commentChannels' = Deregister(commentChannels, chPost[c], c)
  /\ chState' = CloseChan(chState, c).states
  /\ panic' = IF CloseChan(chState, c).panic # "" THEN CloseChan(chState, c).panic
                                                  ELSE panic
  /\ closes' = [closes EXCEPT ![c] = @ + 1]
  /\ spc' = [spc EXCEPT ![c] = "done"]
  /\ ret' = NoRet
  /\ UNCHANGED <<pageVars, storeVars, mu, chBuf, chPost, ctxDone, callVars, nextID,
                 persisted, published, lastRecv>>

\* the owner of the subscription receives a comment from the channel that
\* CommentAdded returned
Receive(c) ==
  /\ spc[c] \in {"wait", "close", "done"}
  /\ Recv(c).ok
  /\ lastRecv' = [lastRecv EXCEPT ![c] = Recv(c).val.ID]
  /\ chBuf' = [chBuf EXCEPT ![c] = Tail(@)]
  /\ ret' = NoRet
  /\ UNCHANGED <<pageVars, storeVars, commentChannels, mu, chState, chPost, ctxDone, spc,
                 callVars, nextID, persisted, published, closes, panic>>

Next ==
  \/ \E ctx \in Ctxs, title \in Titles, content \in Contents, allow \in BOOLEAN :
       CreatePost(ctx, title, content, allow)
  \/ Close
  \/ \E ctx \in Ctxs, postID \in PostIds, content \in Contents :
       CreateComment(ctx, postID, content)
  \/ \E c \in Chans, postID \in PostIds : CommentAdded(c, postID)
  \/ \E c \in Chans : Cancel(c)
  \/ \E c \in Chans : Watcher(c)
  \/ \E c \in Chans : Receive(c)

Spec == Init /\ [][Next]_vars

\* ===================================================== interleaved handlers
\* Request slots are interchangeable: a CreateComment request takes the
\* lowest idle slot.
\* resolver.go 263-298: the checks, and the construction of the comment
CreateComment_Check(t, ctx, postID, content) ==
  /\ pc[t] = "idle"
  /\ \A u \in Callers : u < t => pc[u] # "idle"
  /\ IF CheckComment(postID, content) # ""
       THEN /\ ret' = Ret(<<"CreateComment", 0>>, Nil, CheckComment(postID, content))
            /\ UNCHANGED <<pc, req, nextID>>
       ELSE /\ nextID <= MaxComments
            /\ req' = [req EXCEPT ![t] =
                         [NoReq EXCEPT !.postID = postID,
                                       !.comment = NewComment(nextID, postID,
                                                              UserID(ctx), content)]]
            /\ nextID' = nextID + 1
            /\ pc' = [pc EXCEPT ![t] = "store"]
            /\ ret' = NoRet
  /\ UNCHANGED <<pageVars, storeVars, commentChannels, mu, chanVars, histVars, panic>>

\* CreateComment_Store that goes on to publish when the store refused the comment
CreateComment_Store_IgnoreError(t) ==
  /\ pc[t] = "store"
  /\ LET r == StoreCreateComment(req[t].comment) IN
       /\ comments' = r.comments
       /\ persisted' = IF r.err = "" THEN persisted \cup {req[t].comment.ID}
                                     ELSE persisted
  /\ pc' = [pc EXCEPT ![t] = "lock"]
  /\ ret' = NoRet
  /\ UNCHANGED <<pageVars, posts, commentChannels, mu, chanVars, req, nextID, published,
                 lastRecv, closes, panic>>

\* resolver.go 299-304: Storage.CreateComment and its error return
CreateComment_Store(t) ==
  /\ pc[t] = "store"
  /\ LET r == StoreCreateComment(req[t].comment) IN
     IF r.err # ""
       THEN /\ ret' = Ret(<<"CreateComment", 0>>, Nil,
                            "failed to create comment: " \o r.err)
            /\ pc' = [pc EXCEPT ![t] = "idle"]
            /\ req' = [req EXCEPT ![t] = NoReq]
            /\ UNCHANGED <<comments, persisted>>
       ELSE /\ comments' = r.comments
            /\ persisted' = persisted \cup {req[t].comment.ID}
            /\ pc' = [pc EXCEPT ![t] = "lock"]
            /\ ret' = NoRet
            /\ UNCHANGED req
  /\ UNCHANGED <<pageVars, posts, commentChannels, mu, chanVars, nextID, published,
                 lastRecv, closes, panic>>

\* CreateComment_Lock that does not exclude other holders (a shared lock)
CreateComment_Lock_Shared(t) ==
  /\ pc[t] = "lock"
  /\ mu = Free
  /\ published' = Append(published, req[t].comment.ID)
  /\ req' = [req EXCEPT ![t].exists = req[t].postID \in DOMAIN commentChannels,
                        ![t].channels = MapGet(commentChannels, req[t].postID),
                        ![t].i = 1,
                        ![t].newChannels = <<>>]
  /\ pc' = [pc EXCEPT ![t] = "send"]
  /\ ret' = NoRet
  /\ UNCHANGED <<pageVars, storeVars, commentChannels, mu, chanVars, nextID, persisted,
                 lastRecv, closes, panic>>

\* resolver.go 307-311, 326-328: mu.Lock() and the lookup of the post's channels
CreateComment_Lock(t) ==
  /\ pc[t] = "lock"
  /\ mu = Free
  /\ mu' = <<"CreateComment", t>>
  /\ published' = Append(published, req[t].comment.ID)
  /\ req' = [req EXCEPT ![t].exists = req[t].postID \in DOMAIN commentChannels,
                        ![t].channels = MapGet(commentChannels, req[t].postID),
                        ![t].i = 1,
                        ![t].newChannels = <<>>]
  /\ pc' = [pc EXCEPT ![t] = "send"]
  /\ ret' = NoRet
  /\ UNCHANGED <<pageVars, storeVars, commentChannels, chanVars, nextID, persisted,
                 lastRecv, closes, panic>>

\* resolver.go 312-320: one iteration of the loop
CreateComment_Send(t) ==
  /\ pc[t] = "send"
  /\ req[t].exists
  /\ req[t].i <= Len(req[t].channels)
  /\ LET ch == req[t].channels[req[t].i]
         r  == TrySend(chState, chBuf, ch, req[t].comment)
     IN /\ ~r.blocks
        /\ IF r.panic # ""
             THEN /\ panic' = r.panic
                  /\ pc' = [pc EXCEPT ![t] = "panicked"]
                  /\ UNCHANGED <<chBuf, req>>
             ELSE /\ chBuf' = r.bufs
                  /\ req' = [req EXCEPT ![t].newChannels =
                                           IF r.sent THEN Append(@, ch) ELSE @,
                                        ![t].i = @ + 1]
                  /\ UNCHANGED <<pc, panic>>
  /\ ret' = NoRet
  /\ UNCHANGED <<pageVars, storeVars, commentChannels, mu, chState, chPost, ctxDone, spc,
                 nextID, histVars>>

\* resolver.go 321-330: store the surviving channels, mu.Unlock(), return
CreateComment_Unlock(t) ==
  /\ pc[t] = "send"
  /\ req[t].exists => req[t].i > Len(req[t].channels)
  /\ mu = <<"CreateComment", t>>
  /\ commentChannels' = IF req[t].exists
                          THEN Republish(commentChannels, req[t].postID,
                                         req[t].newChannels)
                          ELSE commentChannels
  /\ mu' = Free
  /\ ret' = Ret(<<"CreateComment", 0>>, req[t].comment, "")
  /\ pc' = [pc EXCEPT ![t] = "idle"]
  /\ req' = [req EXCEPT ![t] = NoReq]
  /\ UNCHANGED <<pageVars, storeVars, chanVars, nextID, histVars, panic>>

\* resolver.go 334-336: the call makes its channel (capacity 1)
CommentAdded_Make(c, postID) ==
  /\ spc[c] = "none"
  /\ \A d \in Chans : spc[d] = "none" => c <= d
  /\ chState' = [chState EXCEPT ![c] = "open"]
  /\ chPost' = [chPost EXCEPT ![c] = postID]
  /\ spc' = [spc EXCEPT ![c] = "register"]
  /\ ret' = NoRet
  /\ UNCHANGED <<pageVars, storeVars, commentChannels, mu, chBuf, ctxDone, callVars,
                 nextID, histVars, panic>>

\* resolver.go 337-342, 362: mu.Lock(), append the channel to the post's list,
\* mu.Unlock(), start the watcher goroutine and return (ch, nil)
CommentAdded_Register(c) ==
  /\ spc[c] = "register"
  /\ mu = Free
  /\ commentChannels' = MapSet(commentChannels, chPost[c],
                               Append(MapGet(commentChannels, chPost[c]), c))
  /\ spc' = [spc EXCEPT ![c] = "wait"]
  /\ ret' = Ret(<<"CommentAdded", 0>>, [ID |-> c], "")
  /\ UNCHANGED <<pageVars, storeVars, mu, chState, chBuf, chPost, ctxDone, callVars,
                 nextID, histVars, panic>>

\* resolver.go 343-358: the watcher wakes on ctx.Done(), takes the lock,
\* removes its channel, drops the post's key when the list is empty, unlocks
Watcher_Deregister(c) ==
  /\ spc[c] = "wait"
  /\ ctxDone[c]
  /\ mu = Free
  /\ commentChannels' = Deregister(commentChannels, chPost[c], c)
  /\ spc' = [spc EXCEPT ![c] = "close"]
  /\ ret' = NoRet
  /\ UNCHANGED <<pageVars, storeVars, mu, chState, chBuf, chPost, ctxDone, callVars,
                 nextID, histVars, panic>>

\* resolver.go 359-360: close(ch)
Watcher_Close(c) ==
  /\ spc[c] = "close"
  /\ chState' = CloseChan(chState, c).states
  /\ panic' = IF CloseChan(chState, c).panic # "" THEN CloseChan(chState, c).panic
                                                  ELSE panic
  /\ closes' = [closes EXCEPT ![c] = @ + 1]
  /\ spc' = [spc EXCEPT ![c] = "done"]
  /\ ret' = NoRet
  /\ UNCHANGED <<pageVars, storeVars, commentChannels, mu, chBuf, chPost, ctxDone, callVars,
                 nextID, persisted, published, lastRecv>>

\* the server after every post id was created, with comments allowed or not
InitHub ==
  /\ \E allow \in [PostIds -> BOOLEAN] :
       posts = [p \in PostIds |-> [ID |-> p, Title |-> MaxTitleLen,
                                   Content |-> MaxContentLen,
                                   AuthorID |-> FallbackUser,
                                   AllowComments |-> allow[p]]]
  /\ comments = [p \in PostIds |-> <<>>]
  /\ commentChannels = <<>>
  /\ mu = Free
  /\ chState = [c \in Chans |-> "nil"]
  /\ chBuf = [c \in Chans |-> <<>>]
  /\ chPost = [c \in Chans |-> 0]
  /\ ctxDone = [c \in Chans |-> FALSE]
  /\ spc = [c \in Chans |-> "none"]
  /\ pc = [t \in Callers |-> "idle"]
  /\ req = [t \in Callers |-> NoReq]
  /\ ret = NoRet
  /\ nextID = 1
  /\ persisted = {}
  /\ published = <<>>
  /\ lastRecv = [c \in Chans |-> 0]
  /\ closes = [c \in Chans |-> 0]
  /\ panic = ""
  /\ walk = NoWalk

NextHub ==
  \/ Close
  \/ \E t \in Callers, ctx \in HubCtxs, postID \in PostIds, content \in Contents :
       CreateComment_Check(t, ctx, postID, content)
  \/ \E t \in Callers : CreateComment_Store(t)
  \/ \E t \in Callers : CreateComment_Lock(t)
  \/ \E t \in Callers : CreateComment_Send(t)
  \/ \E t \in Callers : CreateComment_Unlock(t)
  \/ \E c \in Chans, postID \in PostIds : CommentAdded_Make(c, postID)
  \/ \E c \in Chans : CommentAdded_Register(c)
  \/ \E c \in Chans : Cancel(c)
  \/ \E c \in Chans : Watcher_Deregister(c)
  \/ \E c \in Chans : Watcher_Close(c)
  \/ \E c \in Chans : Receive(c)

SpecHub == InitHub /\ [][NextHub]_vars

\* Scheduling: every started goroutine keeps running (weak fairness of its
\* steps) and sync.RWMutex hands the lock to a waiting Lock() call (strong
\* fairness of the steps that acquire mu).  Nothing is assumed about new
\* requests, cancellations, Close, or subscribers receiving.
FairnessHub ==
  /\ \A t \in Callers : /\ SF_vars(CreateComment_Lock(t))
                         /\ WF_vars(CreateComment_Send(t))
                         /\ WF_vars(CreateComment_Unlock(t))
  /\ \A c \in Chans : /\ SF_vars(CommentAdded_Register(c))
                       /\ SF_vars(Watcher_Deregister(c))
                       /\ WF_vars(Watcher_Close(c))

FairSpecHub == SpecHub /\ FairnessHub

\* ============================================================ the two stores
\* SpecStore drives the storage interface directly, as the storage tests do:
\* the caller supplies the entity with its CreatedAt.  A time is a number of
\* clock ticks, TicksPerSec ticks to the second.  The PostgresStorage answers
\* are computed from the rows its tables hold after the same creates.

\* ---------------------------------------------------------------- bounds
NumStorePosts == 3      \* post ids the store tests may create
MaxStoreItems == 4      \* posts plus comments held by the memory store
MaxTime       == 2      \* CreatedAt values, in ticks
MaxLimit      == 2      \* limit arguments 0..MaxLimit
NumParents    == 1      \* comment ids that later comments may name as parent
MaxWalk       == 5      \* ids a client collects before it gives up following

TicksPerSec  == 2
StorePostIds == 1..NumStorePosts
Times        == 1..MaxTime
Limits       == 0..MaxLimit
Parents      == 0..NumParents       \* 0 is the nil *string

ErrIndex     == "runtime error: index out of range [-1]"

\* a *string cursor: nil, or a string in one of the two layouts the code prints
NilCursor == <<"nil", 0>>
\* time.Time.String(): every digit of the time
TimeString(t) == <<"String", t>>
\* time.Time.Format(time.RFC3339): whole seconds, the fraction is cut off
FormatRFC3339(t) == <<"RFC3339", t \div TicksPerSec>>
Cursors == {NilCursor} \cup {TimeString(t) : t \in Times}

hubVars == <<commentChannels, mu, chanVars, callVars, nextID, histVars, panic>>

\* the posts and comments the memory store holds, as sets
StoredPosts    == {posts[p] : p \in {q \in DOMAIN posts : posts[q] # NoPost}}
StoredComments == UNION {{comments[p][i] : i \in 1..Len(comments[p])} :
                           p \in DOMAIN comments}

\* the orders in which a set can be listed
Orders(S) == {f \in [1..Cardinality(S) -> S] :
                \A i, j \in 1..Cardinality(S) : i # j => f[i] # f[j]}

Min(a, b) == IF a < b THEN a ELSE b

\* ------------------------------------------------ MemoryStorage pagination
\* part_001 64-70 and 143-149: the exchange sort, newest first
RECURSIVE SortDesc(_, _, _)
SortDesc(a, i, j) ==
  IF i >= Len(a) THEN a
  ELSE IF j > Len(a) THEN SortDesc(a, i + 1, i + 2)
  ELSE SortDesc(IF a[i].CreatedAt < a[j].CreatedAt
                  THEN [a EXCEPT ![i] = a[j], ![j] = a[i]]
                  ELSE a,
                i, j + 1)

\* part_001 75-84 and 154-163: the index after the first item whose
\* CreatedAt.String() equals the cursor, 0 when there is none (indices as in
\* the code, from 0)
StartIdx(sorted, cursor) ==
  IF cursor = NilCursor THEN 0
  ELSE IF \E i \in 1..Len(sorted) : TimeString(sorted[i].CreatedAt) = cursor
    THEN CHOOSE i \in 1..Len(sorted) :
           /\ TimeString(sorted[i].CreatedAt) = cursor
           /\ \A k \in 1..(i - 1) : TimeString(sorted[k].CreatedAt) # cursor
    ELSE 0

\* Page that reports the number of returned items as TotalCount
Page_CountPage(sorted, limit, cursor) ==
  LET startIdx == StartIdx(sorted, cursor)
      endIdx   == Min(startIdx + limit, Len(sorted))
  IN IF endIdx < Len(sorted) /\ endIdx = 0
       THEN [panic |-> ErrIndex, Items |-> <<>>, TotalCount |-> 0,
             NextCursor |-> NilCursor]
       ELSE [panic |-> "",
             Items |-> SubSeq(sorted, startIdx + 1, endIdx),
             TotalCount |-> endIdx - startIdx,
             NextCursor |-> IF endIdx < Len(sorted)
                              THEN TimeString(sorted[endIdx].CreatedAt)
                              ELSE NilCursor]

\* part_001 72-104 and 151-183: count, window and next cursor over the sorted
\* items; posts[endIdx-1] with endIdx = 0 is an index out of range
Page(sorted, limit, cursor) ==
  LET startIdx == StartIdx(sorted, cursor)
      endIdx   == Min(startIdx + limit, Len(sorted))
  IN IF endIdx < Len(sorted) /\ endIdx = 0
       THEN [panic |-> ErrIndex, Items |-> <<>>, TotalCount |-> 0,
             NextCursor |-> NilCursor]
       ELSE [panic |-> "",
             Items |-> SubSeq(sorted, startIdx + 1, endIdx),
             TotalCount |-> Len(sorted),
             NextCursor |-> IF endIdx < Len(sorted)
                              THEN TimeString(sorted[endIdx].CreatedAt)
                              ELSE NilCursor]

\* part_001 58-61: the posts in the order the map iteration yields them
\* (iter), then MemoryStorage.ListPosts on them
ListPostsPage(iter, limit, cursor) ==
  Page(SortDesc([k \in 1..Len(iter) |-> iter[k]], 1, 2), limit, cursor)

\* ParentMatches that lets top-level comments through for every parentID
ParentMatches_TopLevelToo(parentID, comment) ==
  comment.ParentID = 0 \/ comment.ParentID = parentID

\* part_001 136: the parent filter; 0 is the nil pointer
ParentMatches(parentID, comment) ==
  \/ parentID = 0 /\ comment.ParentID = 0
  \/ parentID # 0 /\ comment.ParentID # 0 /\ comment.ParentID = parentID

\* part_001 127-184: MemoryStorage.GetComments
GetCommentsPage(postID, parentID, limit, cursor) ==
  IF comments[postID] = <<>>
    THEN [panic |-> "", Items |-> <<>>, TotalCount |-> 0, NextCursor |-> NilCursor]
    ELSE Page(SortDesc(SelectSeq(comments[postID],
                                 LAMBDA c : ParentMatches(parentID, c)), 1, 2),
              limit, cursor)

\* ---------------------------------------------------------- PostgresStorage
\* "$n::TIMESTAMP" applied to a cursor string: the time it denotes
CursorTime(cursor) ==
  IF cursor[1] = "String" THEN cursor[2] ELSE cursor[2] * TicksPerSec

\* "ORDER BY created_at DESC": the orders the rows can come back in
NewestFirst(rows) ==
  {o \in Orders(rows) :
     \A i \in 1..(Cardinality(rows) - 1) : o[i].CreatedAt >= o[i + 1].CreatedAt}

\* postrges.go 99-136 and 172-218: the rows older than the cursor, newest
\* first, limit+1 of them fetched; layout is the layout of the next cursor
PgPage(order, totalCount, limit, layout) ==
  LET fetched == SubSeq(order, 1, Min(limit + 1, Len(order)))
  IN IF Len(fetched) > limit /\ limit = 0
       THEN [panic |-> ErrIndex, Items |-> <<>>, TotalCount |-> 0,
             NextCursor |-> NilCursor]
       ELSE [panic |-> "",
             Items |-> SubSeq(fetched, 1, Min(limit, Len(fetched))),
             TotalCount |-> totalCount,
             NextCursor |-> IF Len(fetched) > limit
                              THEN IF layout = "String"
                                     THEN TimeString(fetched[limit].CreatedAt)
                                     ELSE FormatRFC3339(fetched[limit].CreatedAt)
                              ELSE NilCursor]

\* postrges.go 88-137: the pages PostgresStorage.ListPosts can return when
\* table posts holds pgPosts
PgListPosts(pgPosts, limit, cursor) ==
  LET rows == {r \in pgPosts :
                 cursor = NilCursor \/ r.CreatedAt < CursorTime(cursor)}
  IN {PgPage(o, Cardinality(pgPosts), limit, "String") : o \in NewestFirst(rows)}

\* postrges.go 153-219: the pages PostgresStorage.GetComments can return when
\* table comments holds pgComments
PgGetComments(pgComments, postID, parentID, limit, cursor) ==
  LET matching == {r \in pgComments : r.PostID = postID /\ r.ParentID = parentID}
      rows     == {r \in matching :
                     cursor = NilCursor \/ r.CreatedAt < CursorTime(cursor)}
  IN {PgPage(o, Cardinality(matching), limit, "RFC3339") : o \in NewestFirst(rows)}

\* ------------------------------------------------------------ store actions
StoreSize == Cardinality(StoredPosts) + Cardinality(StoredComments)

\* a post as the storage tests build it
TestPost(id, createdAt) ==
  [ID |-> id, Title |-> MaxTitleLen, Content |-> MaxContentLen,
   AuthorID |-> FallbackUser, AllowComments |-> TRUE, CreatedAt |-> createdAt]

\* a comment as the storage tests build it
TestComment(id, postID, parentID, createdAt) ==
  [ID |-> id, PostID |-> postID, ParentID |-> parentID, AuthorID |-> FallbackUser,
   Content |-> MaxContentLen, CreatedAt |-> createdAt]

\* MemoryStorage.CreatePost, under a fresh id
Storage_CreatePost(id, createdAt) ==
  /\ StoreSize < MaxStoreItems
  /\ posts[id] = NoPost
  /\ \A other \in DOMAIN posts : posts[other] = NoPost => id <= other
  /\ posts' = StoreCreatePost(TestPost(id, createdAt))
  /\ ret' = Ret(<<"Storage.CreatePost", id>>, TestPost(id, createdAt), "")
  /\ walk' = NoWalk
  /\ UNCHANGED <<comments, hubVars>>

\* MemoryStorage.CreateComment, under a fresh id
Storage_CreateComment(postID, parentID, createdAt) ==
  LET comment == TestComment(Cardinality(StoredComments) + 1, postID, parentID,
                             createdAt)
      r       == StoreCreateComment(comment)
  IN /\ StoreSize < MaxStoreItems
     /\ comments' = r.comments
     /\ ret' = Ret(<<"Storage.CreateComment", postID>>,
                   IF r.err = "" THEN comment ELSE Nil, r.err)
     /\ walk' = NoWalk
     /\ UNCHANGED <<posts, hubVars>>

\* MemoryStorage.GetPost
Storage_GetPost(id) ==
  /\ ret' = Ret(<<"Storage.GetPost", id>>, GetPost(id).post, GetPost(id).err)
  /\ walk' = NoWalk
  /\ UNCHANGED <<storeVars, hubVars>>

\* what a client that follows NextCursor has after this ListPosts call: a
\* call without cursor starts over, a call with the cursor and the limit of
\* the page before continues
Follow(limit, cursor, page) ==
  LET ids == [k \in 1..Len(page.Items) |-> page.Items[k].ID] IN
  IF page.panic # "" \/ limit = 0 THEN NoWalk
  ELSE IF cursor = NilCursor
    THEN [on |-> TRUE, limit |-> limit, cursor |-> page.NextCursor,
          items |-> ids, done |-> page.NextCursor = NilCursor]
  ELSE IF /\ walk.on /\ ~walk.done /\ walk.limit = limit /\ walk.cursor = cursor
          /\ Len(walk.items) + Len(ids) <= MaxWalk
    THEN [on |-> TRUE, limit |-> limit, cursor |-> page.NextCursor,
          items |-> walk.items \o ids, done |-> page.NextCursor = NilCursor]
  ELSE NoWalk

\* MemoryStorage.ListPosts; the range over the map visits the posts in an
\* order that is not determined
ListPosts(limit, cursor) ==
  /\ \E iter \in Orders(StoredPosts) :
       LET page == ListPostsPage(iter, limit, cursor) IN
         /\ ret' = Ret(<<"ListPosts", <<limit, cursor>>>>, page, page.panic)
         /\ walk' = Follow(limit, cursor, page)
  /\ UNCHANGED <<storeVars, hubVars>>

\* MemoryStorage.GetComments
GetComments(postID, parentID, limit, cursor) ==
  /\ LET page == GetCommentsPage(postID, parentID, limit, cursor) IN
       ret' = Ret(<<"GetComments", <<postID, parentID, limit, cursor>>>>, page,
                  page.panic)
  /\ walk' = NoWalk
  /\ UNCHANGED <<storeVars, hubVars>>

\* the store freshly constructed
InitStore ==
  /\ posts = [p \in StorePostIds |-> NoPost]
  /\ comments = [p \in StorePostIds |-> <<>>]
  /\ commentChannels = <<>>
  /\ mu = Free
  /\ chState = [c \in Chans |-> "nil"]
  /\ chBuf = [c \in Chans |-> <<>>]
  /\ chPost = [c \in Chans |-> 0]
  /\ ctxDone = [c \in Chans |-> FALSE]
  /\ spc = [c \in Chans |-> "none"]
  /\ pc = [t \in Callers |-> "idle"]
  /\ req = [t \in Callers |-> NoReq]
  /\ ret = NoRet
  /\ nextID = 1
  /\ persisted = {}
  /\ published = <<>>
  /\ lastRecv = [c \in Chans |-> 0]
  /\ closes = [c \in Chans |-> 0]
  /\ panic = ""
  /\ walk = NoWalk

NextStore ==
  \/ \E id \in StorePostIds, createdAt \in Times : Storage_CreatePost(id, createdAt)
  \/ \E postID \in StorePostIds, parentID \in Parents, createdAt \in Times :
       Storage_CreateComment(postID, parentID, createdAt)
  \/ \E id \in StorePostIds : Storage_GetPost(id)
  \/ \E limit \in Limits, cursor \in Cursors : ListPosts(limit, cursor)
  \/ \E postID \in StorePostIds, parentID \in Parents, limit \in Limits,
        cursor \in Cursors : GetComments(postID, parentID, limit, cursor)
  \/ Close

SpecStore == InitStore /\ [][NextStore]_vars

\* ================================================== the API over a Storage
\* The resolvers and the comment loader only know the storage.Storage
\* interface.  A storage is the in-memory store, the PostgreSQL store (whose
\* tables hold what the maps hold after the same creates; fault names the
\* statement of the call that the database fails, "" for none) or the mock of
\* the resolver tests (told to return an error for every call but
\* GetComments, and for GetComments on the post ids in failing).
MaxApiItems == 3      \* posts and comments a served API holds
MaxKeys     == 2      \* keys in one batch of the comment loader

LoaderLimit == 10
ErrDb       == "connection refused"
ErrCast     == "invalid input syntax for type timestamp"
ErrStore    == "storage error"

\* a cursor string that is no rendering of a time
BadCursor  == <<"text", 0>>
ApiLimits  == {1}
ApiCursors == {NilCursor, TimeString(MaxTime), BadCursor}

Memory   == [kind |-> "memory", fault |-> "", failing |-> {}]
Postgres == {[kind |-> "postgres", fault |-> f, failing |-> {}] :
               f \in {"", "count", "query"}}
Mock     == [kind |-> "mock", fault |-> "error", failing |-> {1}]
Storages == {Memory, Mock} \cup Postgres

\* what a Storage call hands back: the value (Nil for a nil pointer) and the
\* error ("" for nil); a page that ended in a runtime fault carries the fault
Answer(page) == [val |-> page, err |-> page.panic]
Failure(err) == [val |-> Nil, err |-> err]
\* postrges.go 163-167, 181-185, 193-197: the page returned in place of an error
EmptyPage(totalCount) ==
  [panic |-> "", Items |-> <<>>, TotalCount |-> totalCount, NextCursor |-> NilCursor]

\* Storage.ListPosts: the answers the storage can give
StorageListPosts(s, limit, cursor) ==
  IF s.kind = "postgres"
    THEN IF s.fault = "count"
           THEN {Failure("failed to count posts: " \o ErrDb)}
         ELSE IF s.fault = "query"
           THEN {Failure("failed to query posts: " \o ErrDb)}
         ELSE IF cursor = BadCursor
           THEN {Failure("failed to query posts: " \o ErrCast)}
         ELSE {Answer(page) : page \in PgListPosts(StoredPosts, limit, cursor)}
  ELSE IF s.kind = "mock" /\ s.fault # ""
    THEN {Failure(ErrStore)}
  ELSE {Answer(ListPostsPage(iter, limit, cursor)) : iter \in Orders(StoredPosts)}

\* Storage.GetComments: the answers the storage can give
StorageGetComments(s, postID, parentID, limit, cursor) ==
  IF s.kind = "postgres"
    THEN IF s.fault = "count"
           THEN {Answer(EmptyPage(0))}
         ELSE IF s.fault = "query" \/ cursor = BadCursor
           THEN {Answer(EmptyPage(Cardinality({c \in StoredComments :
                                                c.PostID = postID /\ c.ParentID = parentID})))}
         ELSE {Answer(page) :
                 page \in PgGetComments(StoredComments, postID, parentID, limit, cursor)}
  ELSE IF s.kind = "mock" /\ postID \in s.failing
    THEN {Failure(ErrStore)}
  ELSE {Answer(GetCommentsPage(postID, parentID, limit, cursor))}

\* Storage.GetPost
StorageGetPost(s, id) ==
  IF s.kind = "postgres" /\ s.fault # ""
    THEN Failure("failed to get post: " \o ErrDb)
  ELSE IF s.kind = "mock" /\ s.fault # ""
    THEN Failure(ErrStore)
  ELSE IF GetPost(id).err # "" THEN Failure(GetPost(id).err)
  ELSE [val |-> GetPost(id).post, err |-> ""]

\* Storage.CreatePost: the error
StorageCreatePost(s, post) ==
  IF s.kind = "postgres" /\ s.fault # "" THEN "failed to insert post: " \o ErrDb
  ELSE IF s.kind = "mock" /\ s.fault # "" THEN ErrStore
  ELSE ""

\* Storage.CreateComment: the error (comments.post_id references posts.id)
StorageCreateComment(s, comment) ==
  IF s.kind = "postgres" /\ s.fault # "" THEN "failed to insert comment: " \o ErrDb
  ELSE IF s.kind = "postgres" /\ posts[comment.PostID] = NoPost
    THEN "failed to insert comment: foreign key violation"
  ELSE IF s.kind = "postgres" THEN ""
  ELSE IF s.kind = "mock" /\ s.fault # "" THEN ErrStore
  ELSE StoreCreateComment(comment).err

\* ------------------------------------------------------------- resolvers
\* CreatedAt: x.CreatedAt.Format(time.RFC3339) in the GraphQL object
ConvertItem(x) == [x EXCEPT !.CreatedAt = FormatRFC3339(x.CreatedAt)]
\* resolver.go 118-133, 172-189, 203-218: the GraphQL page from the stored one
ConvertPage(page) ==
  [Items |-> [k \in 1..Len(page.Items) |-> ConvertItem(page.Items[k])],
   TotalCount |-> page.TotalCount, NextCursor |-> page.NextCursor]

\* what a resolver returns for the storage's answer a: the wrapped error and
\* nil, or the converted value
ResolvedPage(a, wrap) ==
  IF a.err # "" THEN Failure(wrap \o a.err)
                ELSE [val |-> ConvertPage(a.val), err |-> ""]

\* the same for a single post, resolver.go 137-154
ResolvedPost(a, wrap) ==
  IF a.err # "" THEN Failure(wrap \o a.err)
                ELSE [val |-> ConvertItem(a.val), err |-> ""]

\* BatchFn that returns at the first key whose GetComments fails
BatchFn_StopAtError(s, keys) ==
  LET answers(i) == StorageGetComments(s, keys[i], 0, LoaderLimit, NilCursor)
      failed(i)  == \E a \in answers(i) : a.err # ""
      n          == IF \E i \in 1..Len(keys) : failed(i)
                      THEN CHOOSE i \in 1..Len(keys) :
                             failed(i) /\ \A k \in 1..(i - 1) : ~failed(k)
                      ELSE Len(keys)
      all        == UNION {answers(i) : i \in 1..n}
  IN {[results |-> [i \in 1..n |-> [Data |-> f[i].val, Error |-> f[i].err]],
       calls   |-> [i \in 1..n |-> keys[i]]] :
        f \in {g \in [1..n -> all] : \A i \in 1..n : g[i] \in answers(i)}}

\* server.go 40-53: the batch function of the comment loader; one
\* Storage.GetComments(ctx, postID, nil, 10, nil) per index of keys, its
\* result or its error at that index; calls lists the post ids asked for
BatchFn(s, keys) ==
  LET answers(i) == StorageGetComments(s, keys[i], 0, LoaderLimit, NilCursor)
      all        == UNION {answers(i) : i \in 1..Len(keys)}
  IN {[results |-> [i \in 1..Len(keys) |-> [Data |-> f[i].val, Error |-> f[i].err]],
       calls   |-> [i \in 1..Len(keys) |-> keys[i]]] :
        f \in {g \in [1..Len(keys) -> all] : \A i \in 1..Len(keys) : g[i] \in answers(i)}}

\* the batches the loader can hand to its batch function
Batches == UNION {[1..n -> StorePostIds] : n \in 0..MaxKeys}

\* the stored posts and comments the API serves
ApiSize == Cardinality(StoredPosts) + Cardinality(StoredComments)

\* mutationResolver.CreatePost on a server built over storage s, resolver.go
\* 222-260, with a title and content that pass the length checks
CreatePostOn(s, createdAt) ==
  /\ ApiSize < MaxApiItems
  /\ \E id \in StorePostIds :
       /\ posts[id] = NoPost
       /\ \A other \in StorePostIds : posts[other] = NoPost => id <= other
       /\ LET post == TestPost(id, createdAt)
              err  == StorageCreatePost(s, post)
          IN IF err # ""
               THEN /\ ret' = Ret(<<"Mutation.createPost", <<s>>>>, Nil,
                                  "failed to create post: " \o err)
                    /\ posts' = posts
               ELSE /\ ret' = Ret(<<"Mutation.createPost", <<s>>>>,
                                  ConvertItem(post), "")
                    /\ posts' = StoreCreatePost(post)
  /\ walk' = NoWalk
  /\ UNCHANGED <<comments, hubVars>>

\* mutationResolver.CreateComment on a server built over storage s, resolver.go
\* 263-331, with a content that passes the length check and no subscriber
CreateCommentOn(s, postID, parentID, createdAt) ==
  LET post    == StorageGetPost(s, postID)
      comment == TestComment(Cardinality(StoredComments) + 1, postID, parentID,
                             createdAt)
      err     == StorageCreateComment(s, comment)
      by      == <<"Mutation.createComment", <<s, postID>>>>
  IN /\ ApiSize < MaxApiItems
     /\ commentChannels = <<>>
     /\ IF post.err # ""
          THEN /\ ret' = Ret(by, Nil, "failed to get post: " \o post.err)
               /\ comments' = comments
        ELSE IF ~post.val.AllowComments
          THEN /\ ret' = Ret(by, Nil, ErrDisabled)
               /\ comments' = comments
        ELSE IF err # ""
          THEN /\ ret' = Ret(by, Nil, "failed to create comment: " \o err)
               /\ comments' = comments
        ELSE /\ ret' = Ret(by, ConvertItem(comment), "")
             /\ comments' = [comments EXCEPT ![postID] = Append(@, comment)]
     /\ walk' = NoWalk
     /\ UNCHANGED <<posts, hubVars>>

\* queryResolver.Posts, resolver.go 109-135
Posts(s, limit, cursor) ==
  /\ \E a \in StorageListPosts(s, limit, cursor) :
       LET r == ResolvedPage(a, "failed to list posts: ") IN
         ret' = Ret(<<"Query.posts", <<s, limit, cursor>>>>, r.val, r.err)
  /\ walk' = NoWalk
  /\ UNCHANGED <<storeVars, hubVars>>

\* queryResolver.Post, resolver.go 137-154
Post(s, id) ==
  /\ LET r == ResolvedPost(StorageGetPost(s, id), "failed to get post: ") IN
       ret' = Ret(<<"Query.post", <<s, id>>>>, r.val, r.err)
  /\ walk' = NoWalk
  /\ UNCHANGED <<storeVars, hubVars>>

\* postResolver.Comments, resolver.go 157-190: Load(ctx, obj.ID) puts the key
\* into a batch, thunk() hands back the batch function's result at the key's
\* index; that result is the same whatever the other keys are, so the batch
\* is taken to hold this key only
Comments(s, postID, limit, cursor) ==
  /\ \E b \in BatchFn(s, <<postID>>) :
            LET a == [val |-> b.results[1].Data, err |-> b.results[1].Error]
                r == ResolvedPage(a, "failed to load comments: ")
            IN ret' = Ret(<<"Post.comments", <<s, postID, limit, cursor>>>>,
                          r.val, r.err)
  /\ walk' = NoWalk
  /\ UNCHANGED <<storeVars, hubVars>>

\* commentResolver.Replies, resolver.go 193-219, on a stored comment
Replies(s, obj, limit, cursor) ==
  /\ \E a \in StorageGetComments(s, obj.PostID, obj.ID, limit, cursor) :
       LET r == ResolvedPage(a, "failed to load comment replies: ") IN
         ret' = Ret(<<"Comment.replies", <<s, obj.PostID, obj.ID, limit, cursor>>>>,
                    r.val, r.err)
  /\ walk' = NoWalk
  /\ UNCHANGED <<storeVars, hubVars>>

\* the comment loader runs its batch function on a batch of keys
Batch(s, keys) ==
  /\ \E b \in BatchFn(s, keys) :
       ret' = Ret(<<"commentLoader.batch", <<s, keys>>>>, b, "")
  /\ walk' = NoWalk
  /\ UNCHANGED <<storeVars, hubVars>>

NextApi ==
  \/ \E s \in Storages, createdAt \in Times : CreatePostOn(s, createdAt)
  \/ \E s \in Storages, postID \in StorePostIds, parentID \in Parents,
        createdAt \in Times : CreateCommentOn(s, postID, parentID, createdAt)
  \/ \E s \in Storages, limit \in ApiLimits, cursor \in ApiCursors :
       Posts(s, limit, cursor)
  \/ \E s \in Storages, id \in StorePostIds : Post(s, id)
  \/ \E s \in Storages, postID \in StorePostIds, limit \in ApiLimits,
        cursor \in ApiCursors : Comments(s, postID, limit, cursor)
  \/ \E s \in Storages, obj \in StoredComments, limit \in ApiLimits,
        cursor \in ApiCursors : Replies(s, obj, limit, cursor)
  \/ \E s \in Storages, keys \in Batches : Batch(s, keys)

\* the server over a freshly constructed storage
SpecApi == InitStore /\ [][NextApi]_vars

\* ==================================================================== claims
\* the channels registered under some post
Registered == {c \in Chans : \E p \in DOMAIN commentChannels :
                               \E i \in 1..Len(commentChannels[p]) :
                                 commentChannels[p][i] = c}

\* C1: in every interleaving of publishes, registrations and cancellations no
\* send is attempted on a closed channel and no channel is closed twice: every
\* channel in the registry is open, every channel a publish is about to send
\* to is open, and each channel has been closed at most once.
C1_NoSendOnClosedNoDoubleClose ==
  /\ panic = ""
  /\ \A c \in Registered : chState[c] = "open"
  /\ \A t \in Callers :
       (pc[t] = "send" /\ req[t].exists) =>
         \A i \in req[t].i..Len(req[t].channels) : chState[req[t].channels[i]] = "open"
  /\ \A c \in Chans : closes[c] <= 1

\* C1 witness: a publish is inside its loop with a channel still to try while
\* another subscription of the same post has just been closed by its watcher
C1_Witness ==
  \E t \in Callers, c \in Chans :
    /\ pc[t] = "send" /\ req[t].exists /\ req[t].i <= Len(req[t].channels)
    /\ chState[c] = "closed" /\ closes[c] = 1
    /\ chPost[c] = req[t].postID

\* the channels listed under post p, in registry order
ChannelsOf(p) == MapGet(commentChannels, p)
IsListed(c, p) == \E i \in 1..Len(ChannelsOf(p)) : ChannelsOf(p)[i] = c

\* C2: a channel registered by CommentAdded(postId) stays in the registry
\* under postId from the return of CommentAdded until its context is
\* cancelled; a publish that finds its buffer full does not deregister it.
C2_StaysRegisteredUntilCancelled ==
  \A c \in Chans : (spc[c] = "wait" /\ ~ctxDone[c]) => IsListed(c, chPost[c])

\* C3: when CreateComment succeeds on post P, every channel registered under
\* P at the publish holds exactly the returned comment afterwards if its
\* buffer was empty, and keeps its buffered item unchanged if it was full,
\* whatever the state of the other channels of P.
C3_FanOutPerChannel ==
  [][(ret'.by = <<"CreateComment", 0>> /\ ret'.err = "") =>
       \A c \in Chans :
         IsListed(c, ret'.val.PostID) =>
           /\ chBuf[c] = <<>> => chBuf'[c] = <<ret'.val>>
           /\ chBuf[c] # <<>> => chBuf'[c] = chBuf[c]]_vars

\* C3 witness: a CreateComment has just returned its comment; one channel of
\* the post holds that comment and another still holds an older one
C3_Witness ==
  /\ ret.by = <<"CreateComment", 0>> /\ ret.err = ""
  /\ \E c, d \in Chans :
       /\ chPost[c] = ret.val.PostID /\ chPost[d] = ret.val.PostID
       /\ chBuf[c] = <<ret.val>>
       /\ chBuf[d] # <<>> /\ chBuf[d][1].ID # ret.val.ID

\* the list without channel c
Without(channels, c) == SelectSeq(channels, LAMBDA d : d # c)

AllWatchersRan(p) ==
  \A c \in Chans : chPost[c] = p => spc[c] \in {"close", "done"}

\* C5: the registry never holds an entry with zero channels, and once every
\* subscriber of a post has been cancelled and its watcher has run the
\* post's key is absent from the map.
C5_NoEmptyEntry ==
  /\ \A p \in DOMAIN commentChannels : Len(commentChannels[p]) > 0
  /\ \A p \in PostIds : AllWatchersRan(p) => p \notin DOMAIN commentChannels

\* C5 witness: every subscription was made for one post, comments were
\* published, all watchers have run and the post's key is gone
C5_Witness ==
  \E p \in PostIds :
    /\ \A c \in Chans : chPost[c] = p /\ spc[c] = "done"
    /\ Len(published) > 0
    /\ p \notin DOMAIN commentChannels

\* C6: a comment is sent to subscriber channels only after
\* Storage.CreateComment accepted it; a CreateComment that returns an error
\* (validation, post lookup, comments disabled, store error) delivers nothing
\* and leaves the registry unchanged.
C6_PublishOnlyAfterPersist ==
  /\ [](\A c \in Chans :
          /\ chBuf[c] # <<>> => chBuf[c][1].ID \in persisted
          /\ lastRecv[c] # 0 => lastRecv[c] \in persisted)
  /\ [][(ret'.by = <<"CreateComment", 0>> /\ ret'.err # "") =>
          /\ chBuf' = chBuf
          /\ lastRecv' = lastRecv
          /\ commentChannels' = commentChannels]_vars

\* C6 witness: Storage.CreateComment has just refused a comment for a post
\* that has an open subscriber with room in its buffer
C6_Witness ==
  /\ ret.by = <<"CreateComment", 0>> /\ ret.err = ErrCreate
  /\ \E c \in Chans : IsListed(c, chPost[c]) /\ chBuf[c] = <<>> /\ chState[c] = "open"

\* position of a comment id in the order in which publishes took the lock
InPublished(id) == \E i \in 1..Len(published) : published[i] = id
Pos(id) == IF InPublished(id) THEN CHOOSE i \in 1..Len(published) : published[i] = id
                              ELSE 0

\* C7: what one subscriber receives is a subsequence of the publishes in lock
\* order: the comment waiting in its buffer was published, and was published
\* strictly after the comment it received last (no reordering, no duplicate).
C7_SubscriberOrder ==
  \A c \in Chans :
    /\ lastRecv[c] # 0 => InPublished(lastRecv[c])
    /\ chBuf[c] # <<>> =>
         /\ InPublished(chBuf[c][1].ID)
         /\ Pos(chBuf[c][1].ID) > Pos(lastRecv[c])

\* C7 witness: two publishes took the lock in the opposite order of their
\* creation and one subscriber has received the first and holds the second
C7_Witness ==
  \E c \in Chans :
    /\ lastRecv[c] # 0 /\ chBuf[c] # <<>>
    /\ chBuf[c][1].ID < lastRecv[c]

\* C8: the publish step of CreateComment always completes and CommentAdded
\* always returns its channel with a nil error, whether or not subscribers
\* receive: neither waits forever on a channel send or on the registry lock.
C8_NeverWaitsForever ==
  /\ \A t \in Callers : (pc[t] \in {"lock", "send"}) ~> (pc[t] = "idle")
  /\ \A c \in Chans : (spc[c] = "register") ~> (spc[c] # "register")
  /\ [][\A c \in Chans :
          (spc[c] = "register" /\ spc'[c] # "register") =>
            ret' = Ret(<<"CommentAdded", 0>>, [ID |-> c], "")]_vars
  /\ [][\A t \in Callers :
          (pc[t] = "send" /\ pc'[t] = "idle") => ret'.err = ""]_vars

\* C8 witness: every publish has returned although no subscriber ever
\* received and a subscriber's buffer is full
C8_Witness ==
  /\ \A t \in Callers : pc[t] = "idle"
  /\ Len(published) = MaxComments
  /\ \A c \in Chans : spc[c] = "wait" /\ lastRecv[c] = 0
  /\ \E c \in Chans : Len(chBuf[c]) = ChanCap

\* the post exists and has comments disabled
CommentsDisabled(postID) == posts[postID] # NoPost /\ ~posts[postID].AllowComments

\* C9 as stated: CreateComment on an existing post with AllowComments = false
\* fails with the comments-disabled error for every content, including
\* content longer than 2000, and stores and publishes nothing.
C9_AlwaysCommentsDisabled ==
  [][\A ctx \in Ctxs, postID \in PostIds, content \in Contents :
       (CreateComment(ctx, postID, content) /\ CommentsDisabled(postID)) =>
         /\ ret'.err = ErrDisabled
         /\ comments' = comments /\ chBuf' = chBuf /\ published' = published]_vars

\* C9 amended: CreateComment on an existing post with AllowComments = false
\* fails with the comments-disabled error when the content has at most 2000
\* characters and with the content-validation error when it is longer; in
\* both cases it stores and publishes nothing.
C9_DisabledAfterValidation ==
  [][\A ctx \in Ctxs, postID \in PostIds, content \in Contents :
       (CreateComment(ctx, postID, content) /\ CommentsDisabled(postID)) =>
         /\ ret'.err = IF content > MaxContentLen THEN ErrContent ELSE ErrDisabled
         /\ ret'.val = Nil
         /\ comments' = comments /\ chBuf' = chBuf /\ published' = published
         /\ commentChannels' = commentChannels]_vars

\* C9 witness: CreateComment has just been refused with the comments-disabled
\* error on a post that has a subscriber
C9_Witness ==
  /\ ret = Ret(<<"CreateComment", 0>>, Nil, ErrDisabled)
  /\ \E p \in PostIds : CommentsDisabled(p) /\ \E c \in Chans : IsListed(c, p)

C11_CreatePostValidation ==
  [][ret'.by = <<"CreatePost", 0>> =>
      \A ctx \in Ctxs, title \in Titles, content \in Contents, allow \in BOOLEAN :
       CreatePost(ctx, title, content, allow) =>
         IF title > MaxTitleLen \/ content > MaxContentLen
           THEN /\ ret'.err = (IF title > MaxTitleLen THEN ErrTitle ELSE ErrPostContent)
                /\ ret'.val = Nil
                /\ posts' = posts
           ELSE /\ ret'.err = ""
                /\ ret'.val.Title = title /\ ret'.val.Content = content
                /\ ret'.val.AllowComments = allow
                /\ posts[ret'.val.ID] = NoPost
                /\ posts'[ret'.val.ID] = ret'.val]_vars

\* C11 witness: CreatePost has just stored and returned a post whose title has
\* exactly 200 characters and whose content has exactly 2000
C11_Witness ==
  /\ ret.by = <<"CreatePost", 0>> /\ ret.err = ""
  /\ ret.val.Title = MaxTitleLen /\ ret.val.Content = MaxContentLen
  /\ posts[ret.val.ID] = ret.val

\* C12: CreateComment with content longer than 2000 fails with the content
\* validation error whatever the state of the post (the post is not read),
\* stores no comment, takes no comment id and publishes nothing; content of
\* exactly 2000 passes validation.
C12_CommentValidationFirst ==
  [][ret'.by = <<"CreateComment", 0>> =>
      \A ctx \in Ctxs, postID \in PostIds, content \in Contents :
        CreateComment(ctx, postID, content) =>
          /\ content > MaxContentLen =>
                /\ ret' = Ret(<<"CreateComment", 0>>, Nil, ErrContent)
                /\ comments' = comments /\ nextID' = nextID
                /\ chBuf' = chBuf /\ commentChannels' = commentChannels
                /\ published' = published /\ persisted' = persisted
          /\ content <= MaxContentLen => ret'.err # ErrContent]_vars

\* C12 witness: CreateComment has just been refused for its content length
\* although the post it names does not exist and a subscriber is registered
\* with room in its buffer
C12_Witness ==
  /\ ret = Ret(<<"CreateComment", 0>>, Nil, ErrContent)
  /\ \A p \in PostIds : posts[p] = NoPost
  /\ \E c \in Chans : IsListed(c, chPost[c]) /\ chBuf[c] = <<>>

\* the last comment stored for a post
LastStored(postID) == comments[postID][Len(comments[postID])]

\* C13: the AuthorID of the post or comment that CreatePost/CreateComment
\* stores and returns is the identity carried in the request context when one
\* is present and "user1" when none is present; whether the mutation fails
\* depends on the input checks only, never on the absence of an identity.
C13_AuthorFromContext ==
  [][/\ ret'.by = <<"CreatePost", 0>> =>
         \A ctx \in Ctxs, title \in Titles, content \in Contents, allow \in BOOLEAN :
           CreatePost(ctx, title, content, allow) =>
             /\ ret'.err = CheckPost(title, content)
             /\ ret'.err = "" =>
                   /\ ret'.val.AuthorID = (IF ctx.ok THEN ctx.userID ELSE "user1")
                   /\ posts'[ret'.val.ID].AuthorID = ret'.val.AuthorID
     /\ ret'.by = <<"CreateComment", 0>> =>
         \A ctx \in Ctxs, postID \in PostIds, content \in Contents :
           CreateComment(ctx, postID, content) =>
             /\ ret'.err = CheckComment(postID, content)
             /\ ret'.err = "" =>
                   /\ ret'.val.AuthorID = (IF ctx.ok THEN ctx.userID ELSE "user1")
                   /\ LastStored(postID)' = ret'.val]_vars

\* C13 witness: a request without identity has just created a comment, stored
\* under "user1", on a post that a request with an identity created
C13_Witness ==
  /\ ret.by = <<"CreateComment", 0>> /\ ret.err = ""
  /\ ret.val.AuthorID = "user1"
  /\ posts[ret.val.PostID].AuthorID = "user2"
  /\ LastStored(ret.val.PostID) = ret.val

\* the ids a finished walk collected are the stored posts, each exactly once
WalkComplete ==
  /\ Len(walk.items) = Cardinality(StoredPosts)
  /\ {walk.items[k] : k \in 1..Len(walk.items)} = {p.ID : p \in StoredPosts}

\* C14: for the posts in the store and a limit L >= 1, calling ListPosts
\* without cursor and then with each returned NextCursor until it is nil
\* yields every post exactly once (no duplicate, no omission), newest first:
\* a post never comes before a post with a later CreatedAt.
C14_WalkYieldsEveryPostOnce ==
  walk.done =>
    /\ WalkComplete
    /\ \A k \in 1..(Len(walk.items) - 1) :
         posts[walk.items[k]].CreatedAt >= posts[walk.items[k + 1]].CreatedAt

\* the stored comments of a post with the given parent (0: no parent)
Matching(postID, parentID) ==
  {c \in StoredComments : c.PostID = postID /\ c.ParentID = parentID}

\* C15: every page ListPosts returns, for any limit and cursor, carries as
\* TotalCount the number of posts in the store, and every page GetComments
\* returns for (postId, parentId) carries the number of stored comments with
\* that post and that parent, whatever the limit and the cursor, so all pages
\* of one listing agree as long as nothing is created.
C15_TotalCountIsWholeListing ==
  /\ (ret.by[1] = "ListPosts" /\ ret.err = "") =>
        ret.val.TotalCount = Cardinality(StoredPosts)
  /\ (ret.by[1] = "GetComments" /\ ret.err = "") =>
        ret.val.TotalCount = Cardinality(Matching(ret.by[2][1], ret.by[2][2]))

\* C15 witness: GetComments has just returned a page of one comment with
\* TotalCount 2 from a store that holds three comments
C15_Witness ==
  /\ ret.by[1] = "GetComments" /\ ret.err = ""
  /\ Len(ret.val.Items) = 1 /\ ret.val.TotalCount = 2
  /\ Cardinality(StoredComments) = 3

\* the items a ListPosts or GetComments call ranges over, from the call in ret
Listing ==
  IF ret.by[1] = "ListPosts" THEN StoredPosts
                             ELSE Matching(ret.by[2][1], ret.by[2][2])

\* C16: every ListPosts and GetComments call returns a page whose NextCursor
\* is non-nil exactly when some matching item is older than the last item of
\* the page; the last page and an empty page have a nil NextCursor.
C16_NextCursorIffOlderItem ==
  ret.by[1] \in {"ListPosts", "GetComments"} =>
    /\ ret.err = ""
    /\ ret.val.Items = <<>> => ret.val.NextCursor = NilCursor
    /\ ret.val.Items # <<>> =>
         (ret.val.NextCursor # NilCursor <=>
            \E x \in Listing :
              x.CreatedAt < ret.val.Items[Len(ret.val.Items)].CreatedAt)

\* C17: a ListPosts or GetComments call with a non-nil cursor returns only
\* items whose CreatedAt is strictly older than the time the cursor denotes,
\* and passes over none of them: the page holds limit items, or all the
\* matching items older than the cursor when these are fewer.  This holds
\* also when no stored item has the cursor's time.
C17_OnlyOlderThanCursor ==
  LET cursor == IF ret.by[1] = "ListPosts" THEN ret.by[2][2] ELSE ret.by[2][4]
      limit  == IF ret.by[1] = "ListPosts" THEN ret.by[2][1] ELSE ret.by[2][3]
      older  == {x \in Listing : x.CreatedAt < CursorTime(cursor)}
  IN (ret.by[1] \in {"ListPosts", "GetComments"} /\ ret.err = ""
      /\ cursor # NilCursor) =>
       /\ \A k \in 1..Len(ret.val.Items) : ret.val.Items[k] \in older
       /\ Len(ret.val.Items) = Min(limit, Cardinality(older))

\* C18: after the same creates (the tables of the PostgreSQL store hold the
\* posts and comments the maps of the in-memory store hold) every ListPosts
\* and GetComments call gets from the in-memory store an answer the
\* PostgreSQL store can give to the same call: the same items in the same
\* order, the same TotalCount, the same NextCursor.
C18_BackendsAgree ==
  /\ ret.by[1] = "ListPosts" =>
        ret.val \in PgListPosts(StoredPosts, ret.by[2][1], ret.by[2][2])
  /\ ret.by[1] = "GetComments" =>
        ret.val \in PgGetComments(StoredComments, ret.by[2][1], ret.by[2][2],
                                  ret.by[2][3], ret.by[2][4])

PgAnswers ==
  IF ret.by[1] = "ListPosts"
    THEN PgListPosts(StoredPosts, ret.by[2][1], ret.by[2][2])
    ELSE PgGetComments(StoredComments, ret.by[2][1], ret.by[2][2],
                       ret.by[2][3], ret.by[2][4])

\* C28: for every limit >= 0, limit = 0 included, and every cursor, ListPosts
\* and GetComments return a page of at most limit items without a runtime
\* fault (no index out of range in the slice bounds or in the NextCursor), on
\* an empty and on a non-empty store, in the in-memory store and in the
\* PostgreSQL store.
C28_NoFaultAtMostLimit ==
  LET limit == IF ret.by[1] = "ListPosts" THEN ret.by[2][1] ELSE ret.by[2][3]
  IN ret.by[1] \in {"ListPosts", "GetComments"} =>
       /\ ret.val.panic = ""
       /\ Len(ret.val.Items) <= limit
       /\ \A page \in PgAnswers : page.panic = "" /\ Len(page.Items) <= limit

\* C30: following NextCursor from cursor nil with a fixed limit L >= 1 on
\* the in-memory store reaches a page whose NextCursor is nil after finitely
\* many calls, also when stored posts share a CreatedAt.  The NextCursor of a
\* call is determined by the store, the limit and the cursor (the sort fixes
\* the time at every index) and is never newer than the cursor, so a walk
\* goes on forever exactly when a resumed call hands back the cursor it was
\* given: no call of a walk does.
C30_WalkReachesNilCursor ==
  (walk.on /\ ~walk.done /\ ret.by[1] = "ListPosts") =>
     walk.cursor # ret.by[2][2]

\* C24: the NextCursor a store issues encodes the CreatedAt of the last
\* returned item without loss: in every answer of the in-memory store and of
\* the PostgreSQL store to a ListPosts or GetComments call, the time the
\* NextCursor denotes is exactly the CreatedAt of the last item of the page
\* (so items with different CreatedAt never share a cursor and the resumed
\* call passes over no older item, items of the same second included).
C24_CursorIsLastCreatedAt ==
  ret.by[1] \in {"ListPosts", "GetComments"} =>
    \A page \in {ret.val} \cup PgAnswers :
      (page.panic = "" /\ page.NextCursor # NilCursor /\ page.Items # <<>>) =>
         CursorTime(page.NextCursor) = page.Items[Len(page.Items)].CreatedAt

\* C25: while a CreateComment request iterates over the channels of its post
\* it holds the registry lock in shared (read) mode at most, never in
\* exclusive mode, so that other publishes can iterate at the same time.
C25_PublishHoldsNoExclusiveLock ==
  \A t \in Callers : pc[t] = "send" => mu # <<"CreateComment", t>>

\* C29: when the channel of a subscription is no longer in the registry at
\* the time its cancellation watcher runs (a publish dropped it while its
\* buffer was full), the watcher's critical section leaves the registry as it
\* is (no other channel of the post is removed, and no entry that still has
\* channels is deleted) and the watcher then closes that channel, once: no
\* channel is ever closed twice and a finished watcher has closed its channel
\* exactly once.
C29_WatcherOfDroppedChannel ==
  /\ [](\A c \in Chans :
          /\ closes[c] <= 1
          /\ spc[c] = "done" => (closes[c] = 1 /\ chState[c] = "closed"))
  /\ [][\A c \in Chans :
          /\ (spc[c] = "wait" /\ spc'[c] = "close" /\ ~IsListed(c, chPost[c])) =>
               /\ commentChannels' = commentChannels
               /\ chState' = chState /\ closes' = closes
          /\ (spc[c] = "close" /\ spc'[c] = "done" /\ c \notin Registered) =>
               /\ closes' = [closes EXCEPT ![c] = 1]
               /\ chState' = [chState EXCEPT ![c] = "closed"]
               /\ commentChannels' = commentChannels]_vars

\* C29 witness: a channel that still holds the first published comment, and
\* so was passed over by the second publish, has been closed once by its
\* watcher, while the other subscription of the same post received the first
\* comment, holds the second one and is still registered and open
C29_Witness ==
  \E c, d \in Chans :
    /\ c # d /\ chPost[c] = chPost[d]
    /\ spc[c] = "done" /\ closes[c] = 1 /\ chState[c] = "closed"
    /\ Len(published) = 2
    /\ chBuf[c] # <<>> /\ chBuf[c][1].ID = published[1]
    /\ lastRecv[d] = published[1]
    /\ chBuf[d] # <<>> /\ chBuf[d][1].ID = published[2]
    /\ spc[d] = "wait" /\ ~ctxDone[d]
    /\ IsListed(d, chPost[d]) /\ chState[d] = "open"

\* C21: the Post.comments resolver called with (limit, cursor) returns the
\* page Storage.GetComments(postId, nil, limit, cursor) returns: a page of the
\* post's top-level comments with at most limit comments that starts after
\* the position the cursor denotes.
C21_CommentsFieldIsGetComments ==
  ret.by[1] = "Post.comments" =>
    LET s      == ret.by[2][1]
        postID == ret.by[2][2]
        limit  == ret.by[2][3]
        cursor == ret.by[2][4]
    IN /\ [val |-> ret.val, err |-> ret.err] \in
            {ResolvedPage(a, "failed to load comments: ") :
               a \in StorageGetComments(s, postID, 0, limit, cursor)}
       /\ ret.err = "" => Len(ret.val.Items) <= limit

\* the call in ret went to a storage whose backend failed during it: the
\* database failed a statement of the call, or the mock returned its error
BackendFailed ==
  LET s == ret.by[2][1] IN
  IF ret.by[1] \in {"Post.comments", "Comment.replies"}
    THEN \/ s.kind = "postgres" /\ s.fault # ""
         \/ s.kind = "mock" /\ ret.by[2][2] \in s.failing
    ELSE s.fault # ""

\* C22: a backend failure during ListPosts, GetPost, GetComments, CreatePost
\* or CreateComment reaches the caller of the query or mutation as a non-nil
\* error with a nil result; it is never reported as a successful result or
\* as an empty page.
C22_BackendFailureIsAnError ==
  (/\ ret.by[1] \in {"Query.posts", "Query.post", "Post.comments", "Comment.replies",
                     "Mutation.createPost", "Mutation.createComment"}
   /\ BackendFailed) =>
     ret.err # "" /\ ret.val = Nil

\* the answers of the storage to the ListPosts or GetComments call that the
\* posts query or the replies field in ret has passed its limit and cursor to
StorageAnswers ==
  IF ret.by[1] = "Query.posts"
    THEN StorageListPosts(ret.by[2][1], ret.by[2][2], ret.by[2][3])
    ELSE StorageGetComments(ret.by[2][1], ret.by[2][2], ret.by[2][3],
                            ret.by[2][4], ret.by[2][5])

\* C23: ListPosts and GetComments called with a cursor string that is not an
\* encoded timestamp fail with an error instead of returning a page, on the
\* in-memory store and on a PostgreSQL store whose database is up, and so
\* does the query that passed the cursor on.
C23_BadCursorIsRejected ==
  (/\ ret.by[1] \in {"Query.posts", "Comment.replies"}
   /\ ret.by[2][Len(ret.by[2])] = BadCursor
   /\ ret.by[2][1] \in {Memory, [kind |-> "postgres", fault |-> "", failing |-> {}]}) =>
     /\ \A a \in StorageAnswers : a.err # "" /\ a.val = Nil
     /\ ret.err # "" /\ ret.val = Nil

\* the result list of a batch holds, at every index, an answer of
\* Storage.GetComments(keys[i], nil, 10, nil), and is as long as the key list
ResultsMatchKeys(s, keys, results) ==
  /\ Len(results) = Len(keys)
  /\ \A i \in 1..Len(keys) :
       [val |-> results[i].Data, err |-> results[i].Error] \in
         StorageGetComments(s, keys[i], 0, LoaderLimit, NilCursor)

\* C26: for one batch of keys handed to the batch function of the comment
\* loader, Storage.GetComments is invoked at most once per distinct post id,
\* also when a post id occurs several times among the keys, and each index
\* of the result list holds the result for the key at that index.
C26_OneCallPerDistinctKey ==
  ret.by[1] = "commentLoader.batch" =>
    /\ \A p \in StorePostIds :
         Cardinality({i \in 1..Len(ret.val.calls) : ret.val.calls[i] = p}) <= 1
    /\ ResultsMatchKeys(ret.by[2][1], ret.by[2][2], ret.val.results)

\* C27: in the batch function of the comment loader the result list is as
\* long as the key list; when Storage.GetComments fails for a key, the result
\* at that key's index, and at no other index, carries the error and no
\* data; every other index holds the data Storage.GetComments returned for
\* its own key.
C27_ErrorStaysAtItsKey ==
  ret.by[1] = "commentLoader.batch" =>
    LET s       == ret.by[2][1]
        keys    == ret.by[2][2]
        results == ret.val.results
    IN /\ ResultsMatchKeys(s, keys, results)
       /\ \A i \in 1..Len(keys) :
            IF \A a \in StorageGetComments(s, keys[i], 0, LoaderLimit, NilCursor) :
                 a.err # ""
              THEN results[i].Error = ErrStore /\ results[i].Data = Nil
              ELSE results[i].Error = "" /\ results[i].Data # Nil

\* C27 witness: a batch of two keys has returned the error for the first key
\* and a page with a comment for the second
C27_Witness ==
  /\ ret.by[1] = "commentLoader.batch"
  /\ Len(ret.by[2][2]) = 2
  /\ ret.val.results[1].Error = ErrStore /\ ret.val.results[1].Data = Nil
  /\ ret.val.results[2].Error = ""
  /\ Len(ret.val.results[2].Data.Items) = 1

====
